---- MODULE Spec2Model ----
(***************************************************************************)
(* Kaizen voice recorder backend (backend/server.py).                      *)
(*                                                                         *)
(* The model follows the request handlers of server.py:                    *)
(*   process_voice_recording  upload -> transcribe (poll loop) -> analyze  *)
(*                            -> store, one run per request                *)
(*   update_suggestion_status the review-status update                     *)
(* and the remote collaborators they call (S3, Transcribe, Bedrock,        *)
(* MongoDB), whose answers are nondeterministic.                           *)
(***************************************************************************)
EXTENDS Integers, Sequences, FiniteSets, TLC

(***************************************************************************)
(* Bounds of the model.                                                    *)
(***************************************************************************)
\* Requests to /api/transcribe that the model lets arrive.
NumRuns == 2
\* The wall clock (datetime.utcnow) is read up to this value.
MaxClock == 2
\* server.py:157 sets max_wait_time = 300; the model keeps the window to a
\* few poll intervals and everything below is stated in terms of the name.
max_wait_time == 15

(***************************************************************************)
(* Program constants.                                                      *)
(***************************************************************************)
poll_interval == 5
SummaryLimit == 200

Runs == 1..NumRuns
\* job_id = "kaizen_" + uuid4().hex[:8]: as many values as requests.
JobIds == Runs

valid_statuses == {"pending_review", "approved", "implemented", "rejected"}
LeanCategories ==
    {"Motion", "Waiting", "Overproduction", "Defects", "Overprocessing",
     "Inventory", "Transportation"}
SuggestionLevels == {"Just Do It", "Needs Review", "Safety"}
AnalysisKeys == {"summary", "lean_category", "suggestion_level", "reasoning"}

(***************************************************************************)
(* Text is a sequence of characters, so that slicing and concatenation are *)
(* the real ones.                                                          *)
(***************************************************************************)
Chars(n) == [i \in 1..n |-> "a"]
Ellipsis == <<".", ".", ".">>
Slice(s, n) == IF Len(s) > n THEN SubSeq(s, 1, n) ELSE s

EmptyText == <<>>
ShortText == <<"f", "i", "x">>
LimitText == Chars(SummaryLimit)
LongText == Chars(SummaryLimit + 1)
Transcripts == {EmptyText, ShortText, LimitText, LongText}
\* The transcripts the Transcribe service produces for the runs.
RunTranscripts == {EmptyText, ShortText}

(***************************************************************************)
(* Python dicts: a kind ("dict" or something else json.loads can return)   *)
(* and the fields present.                                                 *)
(***************************************************************************)
NoFields == [k \in {} |-> ""]
Dict(f) == [kind |-> "dict", fields |-> f]
NotADict == [kind |-> "list", fields |-> NoFields]
HasKey(d, k) == d.kind = "dict" /\ k \in DOMAIN d.fields
\* d.get(k, default); raises AttributeError on a non-dict (callers guard).
Get(d, k, default) == IF k \in DOMAIN d.fields THEN d.fields[k] ELSE default

Metadatas ==
    { Dict(NoFields),
      Dict([k \in {"location"} |-> "Dock 4"]),
      NotADict }
\* The metadata the runs of the pipeline are given.
RunMetadatas == {Dict(NoFields), NotADict}

(***************************************************************************)
(* What bedrock_client.invoke_model can do.                                *)
(*   raise   the call raises                                               *)
(*   body    the response body lacks content[0].text                       *)
(*   text    content[0].text is not JSON                                   *)
(*   json    content[0].text is JSON; value is what json.loads returns     *)
(***************************************************************************)
GoodFields ==
    [k \in AnalysisKeys |->
        CASE k = "summary" -> ShortText
          [] k = "lean_category" -> "Waiting"
          [] k = "suggestion_level" -> "Just Do It"
          [] OTHER -> "Operators wait for the forklift"]
Without(f, k) == [x \in (DOMAIN f) \ {k} |-> f[x]]
With(f, k, v) == [x \in DOMAIN f |-> IF x = k THEN v ELSE f[x]]

JsonValues ==
    { Dict(GoodFields),
      Dict(Without(GoodFields, "reasoning")),
      Dict(Without(GoodFields, "lean_category")),
      Dict(Without(GoodFields, "summary")),
      Dict(With(GoodFields, "lean_category", "Ergonomics")),
      Dict(With(GoodFields, "suggestion_level", "Urgent")),
      Dict(With(GoodFields, "summary", EmptyText)),
      Dict(NoFields),
      NotADict }

ModelBehaviours ==
    { [kind |-> "raise", value |-> NotADict],
      [kind |-> "body", value |-> NotADict],
      [kind |-> "text", value |-> NotADict] }
    \cup { [kind |-> "json", value |-> v] : v \in JsonValues }
\* The behaviours the model shows to the runs of the pipeline.
RunBehaviours ==
    { [kind |-> "raise", value |-> NotADict],
      [kind |-> "text", value |-> NotADict],
      [kind |-> "json", value |-> Dict(GoodFields)],
      [kind |-> "json", value |-> Dict(Without(GoodFields, "reasoning"))],
      [kind |-> "json", value |-> Dict(Without(GoodFields, "lean_category"))],
      [kind |-> "json", value |-> Dict(Without(GoodFields, "summary"))] }

(***************************************************************************)
(* analyze_with_claude                                                     *)
(***************************************************************************)
Fallback(transcript, reasoning) ==
    Dict([k \in AnalysisKeys |->
        CASE k = "summary" ->
                IF Len(transcript) > SummaryLimit
                THEN Slice(transcript, SummaryLimit) \o Ellipsis
                ELSE transcript
          [] k = "lean_category" -> "Motion"
          [] k = "suggestion_level" -> "Needs Review"
          [] OTHER -> reasoning])

analyze_with_claude(transcript, metadata, b) ==
    IF metadata.kind # "dict"
    THEN \* metadata.get raises while the prompt is built: outer except
         Fallback(transcript, "AI analysis unavailable: AttributeError")
    ELSE CASE b.kind = "raise" ->
                Fallback(transcript, "AI analysis unavailable: ClientError")
           [] b.kind = "body" ->
                Fallback(transcript, "AI analysis unavailable: KeyError")
           [] b.kind = "text" ->
                Fallback(transcript,
                    "AI analysis failed, manual review needed. Error: JSONDecodeError")
           [] OTHER -> b.value

(***************************************************************************)
(* State.                                                                  *)
(***************************************************************************)
VARIABLES
    pc,            \* per run: where process_voice_recording stands
    job_id,        \* per run: the job identity generated for the run
    meta,          \* per run: meta_data
    waited_time,   \* per run: the poll loop's counter
    transcript,    \* per run: transcription_result
    analysis,      \* per run: analysis_result
    resp,          \* per run: the HTTP answer of the run
    audio,         \* S3: job ids whose audio/<id>.webm exists
    jobs,          \* Transcribe: job name -> status and failure reason
    blobs,         \* S3: job name -> transcripts/<name>.json
    store,         \* MongoDB kaizen_suggestions, in insertion order
    now,           \* datetime.utcnow()
    api,           \* the last status update: its arguments and its answer
    listing,       \* the last get_suggestions: its arguments and its answer
    call,          \* one call of analyze_with_claude: arguments and result
    calls,         \* history, per run: the stages invoked, in order
    succeeded,     \* history, per run: the stages that returned normally
    seen,          \* history, per run: the statuses the polls returned
    sleeps,        \* history, per run: asyncio.sleep calls completed
    fetches,       \* history, per run: get_object calls on the result blob
    term_time,     \* history, per run: waited_time when the job turned terminal
    inserted,      \* history, per run: _ids of the documents the run inserted
    addressed,     \* history, per run: the remote names the run's calls used
    before         \* history: the record a status update matched, as it stood

vars == <<pc, job_id, meta, waited_time, transcript, analysis, resp, audio,
          jobs, blobs, store, now, api, listing, call, calls, succeeded, seen,
          sleeps, fetches, term_time, inserted, addressed, before>>

runLocals == <<job_id, meta, waited_time, transcript, analysis>>
remote == <<audio, jobs, blobs>>
reviews == <<api, listing, before>>
database == <<store, now, reviews, call>>
pollHistory == <<seen, sleeps, fetches, term_time>>
history ==
    <<calls, succeeded, seen, sleeps, fetches, term_time, inserted, addressed>>

NoJob == [status |-> "NONE", reason |-> ""]
NoBlob == [present |-> FALSE, text |-> EmptyText]
NoAnalysis == Dict(NoFields)
NoResp == [code |-> 0, detail |-> <<>>, document_id |-> <<>>]
NoUpdate == [code |-> 0, detail |-> <<>>, suggestion_id |-> <<>>, status |-> ""]
NoListing ==
    [code |-> 0, detail |-> <<>>, suggestions |-> <<>>, total |-> 0,
     skip |-> 0, limit |-> 0]
NoBefore == [status |-> "", updated |-> FALSE]
NoCall ==
    [transcript |-> EmptyText, metadata |-> Dict(NoFields),
     behaviour |-> [kind |-> "raise", value |-> NotADict],
     returned |-> FALSE, result |-> NoAnalysis]
NoStatus == "None"
Terminal == {"COMPLETED", "FAILED"}
Ended == {"done", "failed"}

Start ==
    /\ pc = [r \in Runs |-> "idle"]
    /\ job_id = [r \in Runs |-> 0]
    /\ meta = [r \in Runs |-> Dict(NoFields)]
    /\ waited_time = [r \in Runs |-> 0]
    /\ transcript = [r \in Runs |-> EmptyText]
    /\ analysis = [r \in Runs |-> NoAnalysis]
    /\ resp = [r \in Runs |-> NoResp]
    /\ audio = {}
    /\ jobs = [j \in JobIds |-> NoJob]
    /\ blobs = [j \in JobIds |-> NoBlob]
    /\ store = <<>>
    /\ now = 1
    /\ api = NoUpdate
    /\ listing = NoListing
    /\ before = NoBefore
    /\ calls = [r \in Runs |-> <<>>]
    /\ succeeded = [r \in Runs |-> {}]
    /\ seen = [r \in Runs |-> <<>>]
    /\ sleeps = [r \in Runs |-> 0]
    /\ fetches = [r \in Runs |-> 0]
    /\ term_time = [r \in Runs |-> -1]
    /\ inserted = [r \in Runs |-> <<>>]
    /\ addressed = [r \in Runs |-> {}]

Init == Start /\ call = NoCall

(***************************************************************************)
(* process_voice_recording: every exception of the run ends in the outer   *)
(* handler, which answers 500 with "Processing failed: <cause>".           *)
(***************************************************************************)
Fail(r, cause) ==
    /\ pc' = [pc EXCEPT ![r] = "failed"]
    /\ resp' = [resp EXCEPT ![r] =
           [code |-> 500, detail |-> <<"Processing failed">> \o cause,
            document_id |-> <<>>]]

\* uuid4().hex[:8] is 32 random bits: a value no run has drawn yet, or one
\* that an earlier run drew.  Values are named in the order they appear.
Drawn == {j \in JobIds : j \in audio \/ \E r \in Runs : job_id[r] = j}
NewJobIds == {j \in JobIds : j \in Drawn \/ \A k \in JobIds \ Drawn : j <= k}

\* Entry: parse the metadata, validate the file, generate the identifiers.
\* The requests are numbered in the order they arrive.
process_voice_recording(r, metadatas) ==
    /\ pc[r] = "idle"
    /\ \A q \in Runs : q < r => pc[q] # "idle"
    /\ \E m \in metadatas, named \in BOOLEAN, j \in NewJobIds :
          /\ meta' = [meta EXCEPT ![r] = m]
          /\ IF named
             THEN /\ job_id' = [job_id EXCEPT ![r] = j]
                  /\ pc' = [pc EXCEPT ![r] = "upload"]
                  /\ resp' = resp
             ELSE /\ Fail(r, <<"400: No audio file provided">>)
                  /\ job_id' = job_id
    /\ UNCHANGED <<waited_time, transcript, analysis, remote, database, history>>

upload_to_s3(r) ==
    /\ pc[r] = "upload"
    /\ calls' = [calls EXCEPT ![r] = Append(@, "upload")]
    /\ \E ok \in BOOLEAN :
          IF ok
          THEN /\ audio' = audio \cup {job_id[r]}
               /\ succeeded' = [succeeded EXCEPT ![r] = @ \cup {"upload"}]
               /\ pc' = [pc EXCEPT ![r] = "transcribe"]
               /\ resp' = resp
          ELSE /\ Fail(r, <<"S3 upload failed", "ClientError">>)
               /\ UNCHANGED <<audio, succeeded>>
    /\ addressed' = [addressed EXCEPT ![r] = @ \cup {<<"audio key", job_id[r]>>}]
    /\ UNCHANGED <<runLocals, jobs, blobs, database, pollHistory, inserted>>

(***************************************************************************)
(* start_transcription_job: submit, then the poll loop.                    *)
(***************************************************************************)
\* Line 147: the submission.  Transcribe refuses a job name it already has.
start_transcription_job(r) ==
    /\ pc[r] = "transcribe"
    /\ calls' = [calls EXCEPT ![r] = Append(@, "transcribe")]
    /\ \E ok \in BOOLEAN :
          IF ok /\ jobs[job_id[r]].status = "NONE"
          THEN /\ jobs' = [jobs EXCEPT ![job_id[r]] =
                              [status |-> "QUEUED", reason |-> ""]]
               /\ waited_time' = [waited_time EXCEPT ![r] = 0]
               /\ pc' = [pc EXCEPT ![r] = "poll"]
               /\ resp' = resp
          ELSE /\ Fail(r, <<"Transcription failed", "ClientError">>)
               /\ UNCHANGED <<jobs, waited_time>>
    /\ addressed' = [addressed EXCEPT ![r] =
           @ \cup {<<"media", job_id[r]>>, <<"job name", job_id[r]>>,
                   <<"output key", job_id[r]>>}]
    /\ UNCHANGED <<job_id, meta, transcript, analysis, audio, blobs, database,
                   succeeded, pollHistory, inserted>>

\* A poll that has no branch for FAILED.
get_transcription_job_ignores_failed(r) ==
    /\ pc[r] = "poll"
    /\ waited_time[r] < max_wait_time
    /\ \E ok \in BOOLEAN :
          IF ~ok
          THEN /\ Fail(r, <<"Transcription failed", "ClientError">>)
               /\ seen' = seen
          ELSE LET job == jobs[job_id[r]] IN
               /\ seen' = [seen EXCEPT ![r] = Append(@, job.status)]
               /\ CASE job.status = "COMPLETED" ->
                         /\ pc' = [pc EXCEPT ![r] = "fetch"]
                         /\ resp' = resp
                    [] OTHER ->
                         /\ pc' = [pc EXCEPT ![r] = "sleep"]
                         /\ resp' = resp
    /\ addressed' = [addressed EXCEPT ![r] = @ \cup {<<"polled", job_id[r]>>}]
    /\ UNCHANGED <<runLocals, remote, database, calls, succeeded, sleeps,
                   fetches, term_time, inserted>>

\* A poll that does not wait while the job is still queued.
get_transcription_job_no_sleep_queued(r) ==
    /\ pc[r] = "poll"
    /\ waited_time[r] < max_wait_time
    /\ \E ok \in BOOLEAN :
          IF ~ok
          THEN /\ Fail(r, <<"Transcription failed", "ClientError">>)
               /\ seen' = seen
          ELSE LET job == jobs[job_id[r]] IN
               /\ seen' = [seen EXCEPT ![r] = Append(@, job.status)]
               /\ CASE job.status = "COMPLETED" ->
                         /\ pc' = [pc EXCEPT ![r] = "fetch"]
                         /\ resp' = resp
                    [] job.status = "FAILED" ->
                         Fail(r, <<"Transcription failed",
                                   "Transcription job failed",
                                   IF job.reason = "" THEN "Unknown error"
                                   ELSE job.reason>>)
                    [] OTHER ->
                         /\ pc' = [pc EXCEPT ![r] =
                                IF job.status = "QUEUED" THEN "poll" ELSE "sleep"]
                         /\ resp' = resp
    /\ addressed' = [addressed EXCEPT ![r] = @ \cup {<<"polled", job_id[r]>>}]
    /\ UNCHANGED <<runLocals, remote, database, calls, succeeded, sleeps,
                   fetches, term_time, inserted>>

\* Lines 161-183: the loop guard holds, one status poll and its branches.
get_transcription_job(r) ==
    /\ pc[r] = "poll"
    /\ waited_time[r] < max_wait_time
    /\ \E ok \in BOOLEAN :
          IF ~ok
          THEN /\ Fail(r, <<"Transcription failed", "ClientError">>)
               /\ seen' = seen
          ELSE LET job == jobs[job_id[r]] IN
               /\ seen' = [seen EXCEPT ![r] = Append(@, job.status)]
               /\ CASE job.status = "COMPLETED" ->
                         /\ pc' = [pc EXCEPT ![r] = "fetch"]
                         /\ resp' = resp
                    [] job.status = "FAILED" ->
                         Fail(r, <<"Transcription failed",
                                   "Transcription job failed",
                                   IF job.reason = "" THEN "Unknown error"
                                   ELSE job.reason>>)
                    [] OTHER ->
                         /\ pc' = [pc EXCEPT ![r] = "sleep"]
                         /\ resp' = resp
    /\ addressed' = [addressed EXCEPT ![r] = @ \cup {<<"polled", job_id[r]>>}]
    /\ UNCHANGED <<runLocals, remote, database, calls, succeeded, sleeps,
                   fetches, term_time, inserted>>

\* A wait that does not advance the loop counter.
sleep_keeps_counter(r) ==
    /\ pc[r] = "sleep"
    /\ waited_time' = waited_time
    /\ sleeps' = [sleeps EXCEPT ![r] = @ + 1]
    /\ pc' = [pc EXCEPT ![r] = "poll"]
    /\ UNCHANGED <<job_id, meta, transcript, analysis, resp, remote, database,
                   calls, succeeded, seen, fetches, term_time, inserted,
                   addressed>>

\* Lines 186-187.
sleep(r) ==
    /\ pc[r] = "sleep"
    /\ waited_time' = [waited_time EXCEPT ![r] = @ + poll_interval]
    /\ sleeps' = [sleeps EXCEPT ![r] = @ + 1]
    /\ pc' = [pc EXCEPT ![r] = "poll"]
    /\ UNCHANGED <<job_id, meta, transcript, analysis, resp, remote, database,
                   calls, succeeded, seen, fetches, term_time, inserted,
                   addressed>>

\* A loop that falls through to the caller when the guard fails.
timed_out_falls_through(r) ==
    /\ pc[r] = "poll"
    /\ ~(waited_time[r] < max_wait_time)
    /\ pc' = [pc EXCEPT ![r] = "analyze"]
    /\ UNCHANGED <<runLocals, resp, remote, database, history>>

\* Line 189: the loop guard fails.
timed_out(r) ==
    /\ pc[r] = "poll"
    /\ ~(waited_time[r] < max_wait_time)
    /\ Fail(r, <<"Transcription failed", "Transcription job timed out">>)
    /\ UNCHANGED <<runLocals, remote, database, history>>

\* A download that takes whichever transcript the bucket holds.
get_object_any_transcript(r) ==
    /\ pc[r] = "fetch"
    /\ fetches' = [fetches EXCEPT ![r] = @ + 1]
    /\ \E ok \in BOOLEAN, j \in JobIds :
          IF ok /\ blobs[j].present
          THEN /\ transcript' = [transcript EXCEPT ![r] = blobs[j].text]
               /\ succeeded' = [succeeded EXCEPT ![r] = @ \cup {"transcribe"}]
               /\ pc' = [pc EXCEPT ![r] = "analyze"]
               /\ resp' = resp
               /\ addressed' = [addressed EXCEPT ![r] = @ \cup {<<"read key", j>>}]
          ELSE /\ Fail(r, <<"Transcription failed",
                            "Failed to download transcript", "ClientError">>)
               /\ addressed' = [addressed EXCEPT ![r] = @ \cup {<<"read key", j>>}]
               /\ UNCHANGED <<transcript, succeeded>>
    /\ UNCHANGED <<job_id, meta, waited_time, analysis, remote, database,
                   calls, seen, sleeps, term_time, inserted>>

\* Lines 169-179: download transcripts/<job_name>.json and extract the text.
get_object(r) ==
    /\ pc[r] = "fetch"
    /\ fetches' = [fetches EXCEPT ![r] = @ + 1]
    /\ \E ok \in BOOLEAN :
          IF ok /\ blobs[job_id[r]].present
          THEN /\ transcript' = [transcript EXCEPT ![r] = blobs[job_id[r]].text]
               /\ succeeded' = [succeeded EXCEPT ![r] = @ \cup {"transcribe"}]
               /\ pc' = [pc EXCEPT ![r] = "analyze"]
               /\ resp' = resp
          ELSE /\ Fail(r, <<"Transcription failed",
                            "Failed to download transcript", "ClientError">>)
               /\ UNCHANGED <<transcript, succeeded>>
    /\ addressed' = [addressed EXCEPT ![r] = @ \cup {<<"read key", job_id[r]>>}]
    /\ UNCHANGED <<job_id, meta, waited_time, analysis, remote, database,
                   calls, seen, sleeps, term_time, inserted>>

\* The Transcribe service works on job j on its own schedule.  What it does
\* to a job that no run polls any more is seen by nobody and is left out.
\* The history
\* notes, for a run polling j, the loop counter at the moment j turned
\* terminal: j did so that many seconds into the wait or later, and before
\* the next test of the loop guard.
ElapsedAt(r) == waited_time[r]
Polling(r, j) == job_id[r] = j /\ pc[r] \in {"poll", "sleep"}

TranscribeService(j, texts) ==
    /\ jobs[j].status \in {"QUEUED", "IN_PROGRESS"}
    /\ \E r \in Runs : Polling(r, j)
    /\ \/ /\ jobs[j].status = "QUEUED"
          /\ jobs' = [jobs EXCEPT ![j].status = "IN_PROGRESS"]
          /\ UNCHANGED <<blobs, term_time>>
       \/ /\ \E t \in texts :
                blobs' = [blobs EXCEPT ![j] = [present |-> TRUE, text |-> t]]
          /\ jobs' = [jobs EXCEPT ![j].status = "COMPLETED"]
          /\ term_time' = [r \in Runs |->
                IF Polling(r, j) THEN ElapsedAt(r) ELSE term_time[r]]
       \/ /\ \E why \in {"", "Unsupported audio"} :
                jobs' = [jobs EXCEPT ![j] = [status |-> "FAILED", reason |-> why]]
          /\ term_time' = [r \in Runs |->
                IF Polling(r, j) THEN ElapsedAt(r) ELSE term_time[r]]
          /\ blobs' = blobs
    /\ UNCHANGED <<pc, runLocals, resp, audio, database, calls, succeeded,
                   seen, sleeps, fetches, inserted, addressed>>

(***************************************************************************)
(* Lines 317-318: analyze, then the log line that indexes the result.      *)
(* start_transcription_job has returned: its frame and what the model      *)
(* noted about its polls are gone.                                         *)
(***************************************************************************)
analyze(r, behaviours) ==
    /\ pc[r] = "analyze"
    /\ calls' = [calls EXCEPT ![r] = Append(@, "analyze")]
    /\ waited_time' = [waited_time EXCEPT ![r] = 0]
    /\ seen' = [seen EXCEPT ![r] = <<>>]
    /\ sleeps' = [sleeps EXCEPT ![r] = 0]
    /\ fetches' = [fetches EXCEPT ![r] = 0]
    /\ term_time' = [term_time EXCEPT ![r] = -1]
    /\ \E b \in behaviours :
          LET a == analyze_with_claude(transcript[r], meta[r], b) IN
          /\ analysis' = [analysis EXCEPT ![r] = a]
          /\ IF HasKey(a, "lean_category")
             THEN /\ pc' = [pc EXCEPT ![r] = "store"]
                  /\ succeeded' = [succeeded EXCEPT ![r] = @ \cup {"analyze"}]
                  /\ resp' = resp
             ELSE /\ Fail(r, <<"'lean_category'">>)
                  /\ succeeded' = succeeded
    /\ UNCHANGED <<job_id, meta, transcript, remote, database, inserted,
                   addressed>>

(***************************************************************************)
(* store_suggestion                                                        *)
(***************************************************************************)
\* datetime.utcnow(): the clock never runs backwards and may not have moved.
ClockReads == {t \in {now, now + 1} : t <= MaxClock}

Oid(n) == <<"oid", n>>
Uuid(n) == <<"uuid", n>>
\* str(ObjectId): the 24 hexadecimal digits (lines 280 and 352), never the
\* 36 characters of str(uuid4()).
Str(oid) == <<"str", oid[2]>>

document(n, job, text, a, m, t) ==
    [_id |-> Oid(n),
     id |-> Uuid(n),
     job_id |-> job,
     transcript |-> text,
     summary |-> a.fields["summary"],
     lean_category |-> a.fields["lean_category"],
     suggestion_level |-> a.fields["suggestion_level"],
     reasoning |-> Get(a, "reasoning", ""),
     location |-> Get(m, "location", "None"),
     shift |-> Get(m, "shift", "None"),
     associate_name |-> Get(m, "associate_name", "None"),
     timestamp |-> t,
     status |-> "pending_review",
     last_updated |-> 0]

\* The document can be built: no KeyError, no AttributeError.
Buildable(a, m) ==
    /\ HasKey(a, "summary")
    /\ HasKey(a, "lean_category")
    /\ HasKey(a, "suggestion_level")
    /\ m.kind = "dict"

\* An insert that is written although the call reports a failure.
store_suggestion_write_then_fail(r) ==
    /\ pc[r] = "store"
    /\ calls' = [calls EXCEPT ![r] = Append(@, "save")]
    /\ \E ok \in BOOLEAN, t \in ClockReads :
          IF ok /\ Buildable(analysis[r], meta[r])
          THEN LET n == Len(store) + 1 IN
               /\ store' = Append(store,
                     document(n, job_id[r], transcript[r], analysis[r], meta[r], t))
               /\ now' = t
               /\ inserted' = [inserted EXCEPT ![r] = Append(@, Oid(n))]
               /\ succeeded' = [succeeded EXCEPT ![r] = @ \cup {"save"}]
               /\ pc' = [pc EXCEPT ![r] = "done"]
               /\ resp' = [resp EXCEPT ![r] =
                     [code |-> 200, detail |-> <<>>, document_id |-> Str(Oid(n))]]
          ELSE /\ Fail(r, <<"Database storage failed",
                            IF Buildable(analysis[r], meta[r])
                            THEN "ServerSelectionTimeoutError"
                            ELSE "KeyError">>)
               /\ store' = IF Buildable(analysis[r], meta[r])
                           THEN Append(store,
                                    document(Len(store) + 1, job_id[r], transcript[r],
                                             analysis[r], meta[r], t))
                           ELSE store
               /\ UNCHANGED <<now, inserted, succeeded>>
    /\ UNCHANGED <<runLocals, remote, reviews, call, pollHistory, addressed>>

store_suggestion(r) ==
    /\ pc[r] = "store"
    /\ calls' = [calls EXCEPT ![r] = Append(@, "save")]
    /\ \E ok \in BOOLEAN, t \in ClockReads :
          IF ok /\ Buildable(analysis[r], meta[r])
          THEN LET n == Len(store) + 1 IN
               /\ store' = Append(store,
                     document(n, job_id[r], transcript[r], analysis[r], meta[r], t))
               /\ now' = t
               /\ inserted' = [inserted EXCEPT ![r] = Append(@, Oid(n))]
               /\ succeeded' = [succeeded EXCEPT ![r] = @ \cup {"save"}]
               /\ pc' = [pc EXCEPT ![r] = "done"]
               /\ resp' = [resp EXCEPT ![r] =
                     [code |-> 200, detail |-> <<>>, document_id |-> Str(Oid(n))]]
          ELSE /\ Fail(r, <<"Database storage failed",
                            IF Buildable(analysis[r], meta[r])
                            THEN "ServerSelectionTimeoutError"
                            ELSE "KeyError">>)
               /\ UNCHANGED <<store, now, inserted, succeeded>>
    /\ UNCHANGED <<runLocals, remote, reviews, call, pollHistory, addressed>>

\* Lines 324 and 337: the answer leaves and the handler's frame with it.  Of
\* a closed run the model keeps the status code, the id answered and the
\* documents it inserted.
respond(r) ==
    /\ pc[r] \in Ended
    /\ pc' = [pc EXCEPT ![r] = "closed"]
    /\ resp' = [resp EXCEPT ![r].detail = <<>>]
    /\ calls' = [calls EXCEPT ![r] = <<>>]
    /\ succeeded' = [succeeded EXCEPT ![r] = {}]
    /\ job_id' = [job_id EXCEPT ![r] = 0]
    /\ meta' = [meta EXCEPT ![r] = Dict(NoFields)]
    /\ waited_time' = [waited_time EXCEPT ![r] = 0]
    /\ transcript' = [transcript EXCEPT ![r] = EmptyText]
    /\ analysis' = [analysis EXCEPT ![r] = NoAnalysis]
    /\ seen' = [seen EXCEPT ![r] = <<>>]
    /\ sleeps' = [sleeps EXCEPT ![r] = 0]
    /\ fetches' = [fetches EXCEPT ![r] = 0]
    /\ term_time' = [term_time EXCEPT ![r] = -1]
    /\ addressed' = [addressed EXCEPT ![r] = {}]
    /\ UNCHANGED <<remote, database, inserted>>

(***************************************************************************)
(* update_suggestion_status                                                *)
(***************************************************************************)
StatusInputs == valid_statuses \cup {"archived", NoStatus}
\* The ids of the documents there can be, and one that no document has.
IdInputs == {Uuid(n) : n \in 1..(NumRuns + 1)}

\* update_one({"id": suggestion_id}, {"$set": ...}): the first match.
\* What the history notes of the record the filter {"id": suggestion_id}
\* matches first: its status and whether a status update has written it.
Matched(docs, suggestion_id) ==
    LET hits == {i \in 1..Len(docs) : docs[i].id = suggestion_id} IN
    IF hits = {} THEN NoBefore
    ELSE LET first == CHOOSE i \in hits : \A k \in hits : i <= k IN
         [status |-> docs[first].status,
          updated |-> docs[first].last_updated > 0]

\* An update that, once the filter matches, writes every document.
update_one_writes_all(docs, suggestion_id, new_status, t) ==
    LET hits == {i \in 1..Len(docs) : docs[i].id = suggestion_id} IN
    IF hits = {} THEN docs
    ELSE [i \in 1..Len(docs) |->
             [docs[i] EXCEPT !.status = new_status, !.last_updated = t]]

\* An update with upsert: a filter that matches nothing inserts a document.
update_one_upsert(docs, suggestion_id, new_status, t) ==
    LET hits == {i \in 1..Len(docs) : docs[i].id = suggestion_id} IN
    IF hits = {}
    THEN Append(docs,
             [document(Len(docs) + 1, 0, EmptyText, Dict(GoodFields),
                       Dict(NoFields), t)
                 EXCEPT !.id = suggestion_id, !.status = new_status,
                        !.last_updated = t])
    ELSE LET first == CHOOSE i \in hits : \A k \in hits : i <= k IN
         [docs EXCEPT ![first] =
             [@ EXCEPT !.status = new_status, !.last_updated = t]]

update_one(docs, suggestion_id, new_status, t) ==
    LET hits == {i \in 1..Len(docs) : docs[i].id = suggestion_id} IN
    IF hits = {} THEN docs
    ELSE LET first == CHOOSE i \in hits : \A k \in hits : i <= k IN
         [docs EXCEPT ![first] =
             [@ EXCEPT !.status = new_status, !.last_updated = t]]
matched_count(docs, suggestion_id) ==
    IF \E i \in 1..Len(docs) : docs[i].id = suggestion_id THEN 1 ELSE 0

Answer(code, detail, suggestion_id, new_status) ==
    [code |-> code, detail |-> detail, suggestion_id |-> suggestion_id,
     status |-> new_status]

\* A status update that validates after it has written.
update_suggestion_status_late_check(suggestion_id, new_status) ==
    \E ok \in BOOLEAN, t \in ClockReads :
        IF ~ok
        THEN /\ api' = Answer(500, <<"Failed to update status">>,
                              suggestion_id, new_status)
             /\ UNCHANGED <<store, now>>
        ELSE /\ store' = update_one(store, suggestion_id, new_status, t)
             /\ now' = t
             /\ api' = IF new_status \notin valid_statuses
                       THEN Answer(400, <<"Invalid status">>,
                                   suggestion_id, new_status)
                       ELSE IF matched_count(store, suggestion_id) = 0
                       THEN Answer(404, <<"Suggestion not found">>,
                                   suggestion_id, new_status)
                       ELSE Answer(200, <<"Status updated">>,
                                   suggestion_id, new_status)

\* A status update with a workflow: a record that was rejected or implemented
\* stays so.
update_suggestion_status_one_way(suggestion_id, new_status) ==
    IF \/ new_status \notin valid_statuses
       \/ Matched(store, suggestion_id).status \in {"rejected", "implemented"}
    THEN /\ api' = Answer(400, <<"Invalid status">>, suggestion_id, new_status)
         /\ UNCHANGED <<store, now>>
    ELSE \E ok \in BOOLEAN, t \in ClockReads :
         IF ~ok
         THEN /\ api' = Answer(500, <<"Failed to update status">>,
                               suggestion_id, new_status)
              /\ UNCHANGED <<store, now>>
         ELSE /\ store' = update_one(store, suggestion_id, new_status, t)
              /\ now' = t
              /\ api' = IF matched_count(store, suggestion_id) = 0
                        THEN Answer(404, <<"Suggestion not found">>,
                                    suggestion_id, new_status)
                        ELSE Answer(200, <<"Status updated">>,
                                    suggestion_id, new_status)

\* A status update that reports not-found when the status it is asked to
\* set is the one the record already has.
update_suggestion_status_needs_change(suggestion_id, new_status) ==
    IF new_status \notin valid_statuses
    THEN /\ api' = Answer(400, <<"Invalid status">>, suggestion_id, new_status)
         /\ UNCHANGED <<store, now>>
    ELSE \E ok \in BOOLEAN, t \in ClockReads :
         IF ~ok
         THEN /\ api' = Answer(500, <<"Failed to update status">>,
                               suggestion_id, new_status)
              /\ UNCHANGED <<store, now>>
         ELSE /\ store' = update_one(store, suggestion_id, new_status, t)
              /\ now' = t
              /\ api' = IF \/ matched_count(store, suggestion_id) = 0
                           \/ Matched(store, suggestion_id).status = new_status
                        THEN Answer(404, <<"Suggestion not found">>,
                                    suggestion_id, new_status)
                        ELSE Answer(200, <<"Status updated">>,
                                    suggestion_id, new_status)

update_suggestion_status(suggestion_id, new_status) ==
    IF new_status \notin valid_statuses
    THEN /\ api' = Answer(400, <<"Invalid status">>, suggestion_id, new_status)
         /\ UNCHANGED <<store, now>>
    ELSE \E ok \in BOOLEAN, t \in ClockReads :
         IF ~ok
         THEN /\ api' = Answer(500, <<"Failed to update status">>,
                               suggestion_id, new_status)
              /\ UNCHANGED <<store, now>>
         ELSE /\ store' = update_one(store, suggestion_id, new_status, t)
              /\ now' = t
              /\ api' = IF matched_count(store, suggestion_id) = 0
                        THEN Answer(404, <<"Suggestion not found">>,
                                    suggestion_id, new_status)
                        ELSE Answer(200, <<"Status updated">>,
                                    suggestion_id, new_status)

UpdateStatus ==
    /\ \E sid \in IdInputs, st \in StatusInputs :
          /\ update_suggestion_status(sid, st)
          /\ before' = Matched(store, sid)
    /\ UNCHANGED <<pc, runLocals, resp, remote, listing, call, history>>

(***************************************************************************)
(* get_suggestions                                                         *)
(***************************************************************************)
\* Pages of one document and pages that hold every document there can be.
SkipInputs == 0..(NumRuns - 1)
LimitInputs == {1, NumRuns}

\* sort("timestamp", -1): newest first; the order among documents of equal
\* timestamp is the server's choice.
Orders(n) ==
    {p \in [1..n -> 1..n] : \A i, j \in 1..n : i # j => p[i] # p[j]}
Sorted(docs) ==
    {[i \in 1..Len(docs) |-> docs[p[i]]] :
        p \in {q \in Orders(Len(docs)) :
                  \A i, j \in 1..Len(docs) :
                      i < j => docs[q[i]].timestamp >= docs[q[j]].timestamp}}
\* skip(skip).limit(limit) and to_list(length=limit).
Page(docs, skip, limit) ==
    IF skip >= Len(docs) THEN <<>>
    ELSE SubSeq(docs, skip + 1,
                IF skip + limit < Len(docs) THEN skip + limit ELSE Len(docs))
\* Lines 351-354: the ObjectId becomes its string, the timestamp its
\* isoformat string.
IsoFormat(t) == <<"iso", t>>
Formatted(docs) ==
    [i \in 1..Len(docs) |->
        [docs[i] EXCEPT !._id = Str(@), !.timestamp = IsoFormat(@)]]

Listed(code, detail, suggestions, total, skip, limit) ==
    [code |-> code, detail |-> detail, suggestions |-> suggestions,
     total |-> total, skip |-> skip, limit |-> limit]

\* A listing that pages the documents in insertion order and sorts the page.
get_suggestions_pages_then_sorts(skip, limit) ==
    \E ok \in BOOLEAN :
        IF ~ok
        THEN listing' = Listed(500, <<"Failed to retrieve suggestions">>,
                               <<>>, 0, 0, 0)
        ELSE \E sorted \in Sorted(Page(store, skip, limit)) :
                listing' = Listed(200, <<>>, Formatted(sorted),
                                  Len(store), skip, limit)

\* The cursor's options are sent together; the server sorts, then skips,
\* then limits, whatever the order of the calls that set them.
get_suggestions(skip, limit) ==
    \E ok \in BOOLEAN :
        IF ~ok
        THEN listing' = Listed(500, <<"Failed to retrieve suggestions">>,
                               <<>>, 0, 0, 0)
        ELSE \E sorted \in Sorted(store) :
                listing' = Listed(200, <<>>,
                                  Formatted(Page(sorted, skip, limit)),
                                  Len(store), skip, limit)

ListSuggestions ==
    /\ \E skip \in SkipInputs, limit \in LimitInputs :
          get_suggestions(skip, limit)
    /\ UNCHANGED <<pc, runLocals, resp, remote, store, now, api, before, call,
                   history>>

(***************************************************************************)
(* The pipeline: the requests to /api/transcribe are served one after      *)
(* another, each against services that answer as they please.              *)
(***************************************************************************)
InFlight(r) == pc[r] \notin {"idle", "closed"}
Quiet == \A q \in Runs : ~InFlight(q)

Arrive(r) ==
    /\ Quiet
    /\ process_voice_recording(r, RunMetadatas)

Next ==
    \/ \E r \in Runs : Arrive(r)
    \/ \E r \in Runs : upload_to_s3(r)
    \/ \E r \in Runs : start_transcription_job(r)
    \/ \E r \in Runs : get_transcription_job(r)
    \/ \E r \in Runs : sleep(r)
    \/ \E r \in Runs : timed_out(r)
    \/ \E r \in Runs : get_object(r)
    \/ \E j \in JobIds : TranscribeService(j, RunTranscripts)
    \/ \E r \in Runs : analyze(r, RunBehaviours)
    \/ \E r \in Runs : store_suggestion(r)
    \/ \E r \in Runs : respond(r)

Spec == Init /\ [][Next]_vars

(***************************************************************************)
(* Two requests to /api/transcribe in flight together: every step of one   *)
(* may fall between any two steps of the other.                            *)
(***************************************************************************)
Racers == {r \in Runs : r <= 2}
\* What the runs of the race and of the store under review are given.
PlainMetadatas == {Dict([k \in {"location"} |-> "Dock 4"])}
PlainTranscripts == {ShortText}
PlainBehaviours ==
    { [kind |-> "raise", value |-> NotADict],
      [kind |-> "json", value |-> Dict(GoodFields)] }

NextRace ==
    \/ \E r \in Racers : process_voice_recording(r, PlainMetadatas)
    \/ \E r \in Racers : upload_to_s3(r)
    \/ \E r \in Racers : start_transcription_job(r)
    \/ \E r \in Racers : get_transcription_job(r)
    \/ \E r \in Racers : sleep(r)
    \/ \E r \in Racers : timed_out(r)
    \/ \E r \in Racers : get_object(r)
    \/ \E j \in JobIds : TranscribeService(j, RunTranscripts)
    \/ \E r \in Racers : analyze(r, PlainBehaviours)
    \/ \E r \in Racers : store_suggestion(r)
    \/ \E r \in Racers : respond(r)

SpecRace == Init /\ [][NextRace]_vars

(***************************************************************************)
(* The store under review: the requests, to /api/transcribe and to         *)
(* /api/suggestions/<id>/status, are served one after another.             *)
(***************************************************************************)
\* The model answers as asked while the store is under review.
StoreBehaviours == {[kind |-> "json", value |-> Dict(GoodFields)]}

Submit(r) ==
    /\ Quiet
    /\ api = NoUpdate
    /\ listing = NoListing
    /\ process_voice_recording(r, PlainMetadatas)

Review ==
    /\ Quiet
    /\ api = NoUpdate
    /\ listing = NoListing
    /\ UpdateStatus

Browse ==
    /\ Quiet
    /\ api = NoUpdate
    /\ listing = NoListing
    /\ ListSuggestions

\* The answer of the status update has left.
Answered ==
    /\ api # NoUpdate
    /\ api' = NoUpdate
    /\ before' = NoBefore
    /\ UNCHANGED <<pc, runLocals, resp, remote, store, now, listing, call,
                   history>>

\* The answer of the listing has left.
Browsed ==
    /\ listing # NoListing
    /\ listing' = NoListing
    /\ UNCHANGED <<pc, runLocals, resp, remote, store, now, api, before, call,
                   history>>

NextStore ==
    \/ \E r \in Runs : Submit(r)
    \/ \E r \in Runs : upload_to_s3(r)
    \/ \E r \in Runs : start_transcription_job(r)
    \/ \E r \in Runs : get_transcription_job(r)
    \/ \E r \in Runs : sleep(r)
    \/ \E r \in Runs : timed_out(r)
    \/ \E r \in Runs : get_object(r)
    \/ \E j \in JobIds : TranscribeService(j, PlainTranscripts)
    \/ \E r \in Runs : analyze(r, StoreBehaviours)
    \/ \E r \in Runs : store_suggestion(r)
    \/ \E r \in Runs : respond(r)
    \/ Review
    \/ Answered
    \/ Browse
    \/ Browsed

SpecStore == Init /\ [][NextStore]_vars

(***************************************************************************)
(* The caller that keeps what /api/transcribe answered: its status updates *)
(* are addressed with the document_id of a record it saved.                *)
(***************************************************************************)
\* The document_id values answered for the records of the store (line 280).
ReturnedIds == {Str(store[i]._id) : i \in 1..Len(store)}

Approve ==
    /\ Quiet
    /\ api = NoUpdate
    /\ listing = NoListing
    /\ \E sid \in ReturnedIds, st \in valid_statuses :
          /\ update_suggestion_status(sid, st)
          /\ before' = Matched(store, sid)
    /\ UNCHANGED <<pc, runLocals, resp, remote, listing, call, history>>

NextReturned ==
    \/ \E r \in Runs : Submit(r)
    \/ \E r \in Runs : upload_to_s3(r)
    \/ \E r \in Runs : start_transcription_job(r)
    \/ \E r \in Runs : get_transcription_job(r)
    \/ \E r \in Runs : sleep(r)
    \/ \E r \in Runs : timed_out(r)
    \/ \E r \in Runs : get_object(r)
    \/ \E j \in JobIds : TranscribeService(j, PlainTranscripts)
    \/ \E r \in Runs : analyze(r, StoreBehaviours)
    \/ \E r \in Runs : store_suggestion(r)
    \/ \E r \in Runs : respond(r)
    \/ Approve
    \/ Answered
    \/ Browse
    \/ Browsed

SpecReturned == Init /\ [][NextReturned]_vars

(***************************************************************************)
(* The requests one after another, every call of a run returning.          *)
(***************************************************************************)
\* Every remote call and every sleep of a run returns: a step of the poll
\* loop that can be taken is taken.  Nothing is asked of the Transcribe
\* service, which may leave a job unfinished for ever.
CallsReturn ==
    \A r \in Runs :
        /\ WF_vars(get_transcription_job(r))
        /\ WF_vars(sleep(r))
        /\ WF_vars(timed_out(r))
        /\ WF_vars(get_object(r))

\* The requests one after another, with plain inputs: what transcribe does
\* depends on none of them.
NextLive ==
    \/ \E r \in Runs : Quiet /\ process_voice_recording(r, PlainMetadatas)
    \/ \E r \in Runs : upload_to_s3(r)
    \/ \E r \in Runs : start_transcription_job(r)
    \/ \E r \in Runs : get_transcription_job(r)
    \/ \E r \in Runs : sleep(r)
    \/ \E r \in Runs : timed_out(r)
    \/ \E r \in Runs : get_object(r)
    \/ \E j \in JobIds : TranscribeService(j, PlainTranscripts)
    \/ \E r \in Runs : analyze(r, StoreBehaviours)
    \/ \E r \in Runs : store_suggestion(r)
    \/ \E r \in Runs : respond(r)

SpecLive == Init /\ [][NextLive]_vars /\ CallsReturn

(***************************************************************************)
(* analyze_with_claude on its own: any transcript, any metadata, any       *)
(* behaviour of the model.                                                 *)
(***************************************************************************)
AnalyzeCall ==
    /\ ~call.returned
    /\ call' = [call EXCEPT
           !.returned = TRUE,
           !.result = analyze_with_claude(call.transcript, call.metadata,
                                          call.behaviour)]
    /\ UNCHANGED <<pc, runLocals, resp, remote, store, now, reviews, history>>

InitAnalyze ==
    /\ Start
    /\ call \in [transcript : Transcripts, metadata : Metadatas,
                 behaviour : ModelBehaviours, returned : {FALSE},
                 result : {NoAnalysis}]

NextAnalyze == AnalyzeCall

SpecAnalyze == InitAnalyze /\ [][NextAnalyze]_vars

(***************************************************************************)
(* Properties.                                                             *)
(***************************************************************************)
Last(q) == q[Len(q)]
IsPrefix(p, q) == Len(p) <= Len(q) /\ \A i \in 1..Len(p) : p[i] = q[i]
Stages == <<"upload", "transcribe", "analyze", "save">>
RunEnded(r) == pc[r] \in Ended
Cause(r) == resp[r].detail
StoreWriteFailed(r) ==
    Len(Cause(r)) >= 2 /\ Cause(r)[2] = "Database storage failed"
TimedOut(r) ==
    /\ pc[r] = "failed"
    /\ Cause(r) = <<"Processing failed", "Transcription failed",
                    "Transcription job timed out">>
TerminalInsideWindow(r) == term_time[r] >= 0 /\ term_time[r] < max_wait_time
RecordOf(r) == CHOOSE d \in {store[i] : i \in 1..Len(store)} : d._id = inserted[r][1]

\* C1: for every run that has ended, unless the store write itself failed, a
\* record was written if and only if upload and transcription both
\* succeeded: whatever the model call did, it did not abort the run.
C1_RecordIffUploadAndTranscription ==
    \A r \in Runs :
        RunEnded(r) /\ ~StoreWriteFailed(r) =>
            (inserted[r] # <<>> <=> {"upload", "transcribe"} \subseteq succeeded[r])

\* C2: transcribe ends with the timeout error exactly when the job stayed
\* non-terminal through the whole max-wait window: a job that turned terminal
\* inside the window is observed, a run that left the loop on a terminal poll
\* did so inside the window, and no poll happens once the window has elapsed.
C2_TimeoutIffNonTerminalThroughWindow ==
    \A r \in Runs :
        /\ TimedOut(r) => ~TerminalInsideWindow(r)
        /\ seen[r] # <<>> /\ Last(seen[r]) \in Terminal => TerminalInsideWindow(r)
        /\ seen[r] # <<>> => (Len(seen[r]) - 1) * poll_interval < max_wait_time

\* C3: whatever the transcript, the metadata and the model do, analyze
\* returns a value whose lean_category and suggestion_level are members of
\* their fixed sets.
C3_AnalyzeReturnsVocabulary ==
    call.returned =>
        /\ HasKey(call.result, "lean_category")
        /\ HasKey(call.result, "suggestion_level")
        /\ call.result.fields["lean_category"] \in LeanCategories
        /\ call.result.fields["suggestion_level"] \in SuggestionLevels

\* C4: when the model call fails or its response is not a JSON object with
\* the four fields, analyze returns the fallback: the transcript cut to 200
\* characters plus an ellipsis (whole if not longer), Motion, Needs Review
\* and a non-empty diagnostic.
ExpectedShape(b) ==
    b.kind = "json" /\ b.value.kind = "dict"
        /\ AnalysisKeys \subseteq DOMAIN b.value.fields
IsFallback(a, text) ==
    /\ a.kind = "dict"
    /\ DOMAIN a.fields = AnalysisKeys
    /\ a.fields["summary"] =
          IF Len(text) <= SummaryLimit THEN text
          ELSE SubSeq(text, 1, SummaryLimit) \o Ellipsis
    /\ a.fields["lean_category"] = "Motion"
    /\ a.fields["suggestion_level"] = "Needs Review"
    /\ a.fields["reasoning"] # ""
C4_FallbackOnFailureOrBadShape ==
    call.returned /\ ~ExpectedShape(call.behaviour) =>
        IsFallback(call.result, call.transcript)

\* C5: the record a successful run persisted has status pending_review and
\* a non-empty summary, lean_category, suggestion_level and reasoning.
C5_PersistedRecordFullyPopulated ==
    \A r \in Runs :
        pc[r] = "done" =>
            /\ Len(inserted[r]) = 1
            /\ RecordOf(r).status = "pending_review"
            /\ RecordOf(r).summary # EmptyText
            /\ RecordOf(r).lean_category # ""
            /\ RecordOf(r).suggestion_level # ""
            /\ RecordOf(r).reasoning # ""

\* C6: within a run the stages are invoked in the order upload, transcribe,
\* analyze, save, each at most once and only after every earlier stage has
\* succeeded; when upload or transcription fails (a timeout included) the run
\* is aborted, the failed stage is the last one invoked and the run has
\* persisted nothing.
StageFailed(r, stage) ==
    /\ \E i \in 1..Len(calls[r]) : calls[r][i] = stage
    /\ stage \notin succeeded[r]
    /\ ~(stage = "transcribe" /\ pc[r] \in {"poll", "sleep", "fetch"})
C6_StagesInOrderAbortOnFailure ==
    \A r \in Runs :
        /\ IsPrefix(calls[r], Stages)
        /\ \A i \in 1..(Len(calls[r]) - 1) : calls[r][i] \in succeeded[r]
        /\ \A stage \in {"upload", "transcribe"} :
              StageFailed(r, stage) =>
                  /\ pc[r] = "failed"
                  /\ Last(calls[r]) = stage
                  /\ inserted[r] = <<>>
        /\ resp[r].code = 500 => inserted[r] = <<>>
W6_TimedOutRunPersistsNothing ==
    \E r \in Runs :
        /\ TimedOut(r)
        /\ Len(seen[r]) * poll_interval >= max_wait_time
        /\ \A i \in 1..Len(seen[r]) : seen[r][i] = "IN_PROGRESS"
        /\ calls[r] = <<"upload", "transcribe">>
        /\ inserted[r] = <<>>

\* C7: a status poll that returns FAILED ends transcribe at once with the
\* transcription error that carries the service's failure reason: it is the
\* last poll, no sleep follows it and the result blob is not fetched.
JobFailedSeen(r) == seen[r] # <<>> /\ Last(seen[r]) = "FAILED"
C7_FailedPollFailsImmediately ==
    \A r \in Runs :
        JobFailedSeen(r) =>
            /\ pc[r] = "failed"
            /\ Len(Cause(r)) = 4
            /\ Cause(r)[2] = "Transcription failed"
            /\ Cause(r)[3] = "Transcription job failed"
            /\ Cause(r)[4] = IF jobs[job_id[r]].reason = "" THEN "Unknown error"
                             ELSE jobs[job_id[r]].reason
            /\ \A i \in 1..(Len(seen[r]) - 1) : seen[r][i] \notin Terminal
            /\ sleeps[r] = Len(seen[r]) - 1
            /\ waited_time[r] = sleeps[r] * poll_interval
            /\ fetches[r] = 0
W7_FailedAfterWaiting ==
    \E r \in Runs :
        /\ JobFailedSeen(r)
        /\ Len(seen[r]) >= 2
        /\ Cause(r)[4] = "Unsupported audio"

\* C8: a job that is Submitted and whose polls then find it InProgress,
\* InProgress and Completed: transcribe fetches the result blob once and
\* returns its transcript after exactly two sleeps of poll_interval.
View(status) ==
    CASE status = "COMPLETED" -> "Completed"
      [] status = "FAILED" -> "Failed"
      [] OTHER -> "InProgress"
StatusSequence(r) ==
    <<"Submitted">> \o [i \in 1..Len(seen[r]) |-> View(seen[r][i])]
Scenario2(r) ==
    StatusSequence(r) = <<"Submitted", "InProgress", "InProgress", "Completed">>
C8_CompletedAfterTwoIntervals ==
    \A r \in Runs :
        Scenario2(r) =>
            /\ sleeps[r] = 2
            /\ waited_time[r] = 2 * poll_interval
            /\ pc[r] \in {"fetch", "analyze", "failed"}
            /\ pc[r] = "fetch" => fetches[r] = 0
            /\ pc[r] # "fetch" => fetches[r] = 1
            /\ pc[r] = "analyze" => transcript[r] = blobs[job_id[r]].text
W8_ReturnedAfterTwoIntervals ==
    \E r \in Runs :
        /\ Scenario2(r)
        /\ pc[r] = "analyze"
        /\ transcript[r] = ShortText
        /\ fetches[r] = 1

\* C9: the store holds exactly one record per run that completed
\* successfully: a run inserts one record when it succeeds and none
\* otherwise, however the steps of the runs interleave.
Successful(r) == pc[r] \in {"done", "closed"} /\ resp[r].code = 200
C9_OneRecordPerSuccessfulRun ==
    /\ Len(store) = Cardinality({r \in Runs : Successful(r)})
    /\ \A r \in Runs : Len(inserted[r]) = IF Successful(r) THEN 1 ELSE 0
    /\ \A i \in 1..Len(store) :
          Cardinality({r \in Runs : inserted[r] = <<store[i]._id>>}) = 1
W9_OneSucceededOneFailed ==
    \E a, b \in Runs :
        /\ pc[a] = "done"
        /\ pc[b] = "failed"
        /\ "transcribe" \in succeeded[b]
        /\ Len(store) = 1

\* C10: a status update whose status is outside the four recognised values
\* (or missing) is answered with the invalid-status error and leaves every
\* record as it was, whether or not the id matches a record.
UpdateStep ==
    /\ api'.code # 0
    /\ <<api, store, now>>' # <<api, store, now>>
C10_InvalidStatusChangesNothing ==
    [][UpdateStep /\ api'.status \notin valid_statuses =>
          api'.code = 400 /\ store' = store]_vars
W10_ArchivedRejectedOnApprovedRecord ==
    /\ api.code = 400
    /\ api.status = "archived"
    /\ \E i \in 1..Len(store) :
          /\ store[i].id = api.suggestion_id
          /\ store[i].status = "approved"
          /\ store[i].last_updated > 0


\* C11: a status update with a valid status and an id that no record has is
\* answered with the not-found error whenever the store itself answers; it
\* creates no record and changes none.
Matches(sid) == {i \in 1..Len(store) : store[i].id = sid}
StoreRaised == api'.code = 500 /\ api'.detail = <<"Failed to update status">>
C11_UnknownIdNotFound ==
    [][UpdateStep /\ api'.status \in valid_statuses
                  /\ Matches(api'.suggestion_id) = {} =>
          /\ store' = store
          /\ api'.code = 404 \/ StoreRaised
          /\ api'.code = 404 => api'.detail = <<"Suggestion not found">>]_vars
W11_NotFoundBesideRecords ==
    /\ api.code = 404
    /\ api.status = "approved"
    /\ Len(store) = 2
    /\ Matches(api.suggestion_id) = {}
    /\ \A i \in 1..Len(store) : store[i].status = "pending_review"


\* C12: a status update that asks for the valid status the previous
\* successful update of the same record has set succeeds again and leaves
\* that status stored: setting a status twice is not an error.
C12_SameStatusTwice ==
    [][UpdateStep /\ api'.status \in valid_statuses
                  /\ before'.updated /\ before'.status = api'.status
                  /\ ~StoreRaised =>
          /\ api'.code = 200
          /\ Matched(store', api'.suggestion_id).status = api'.status
          /\ Len(store') = Len(store)]_vars
W12_RejectedTwice ==
    /\ api.code = 200
    /\ api.status = "rejected"
    /\ before = [status |-> "rejected", updated |-> TRUE]
    /\ Matched(store, api.suggestion_id) = before


\* C13: the status of every stored record is one of the four values; a
\* status update with any of the four on an existing record, whatever its
\* status, succeeds and stores the target (when the store answers); and for
\* every record and every target that update can be made: no order among
\* the statuses is enforced.
StatusesValid == \A i \in 1..Len(store) : store[i].status \in valid_statuses
Transition(i, target) ==
    /\ update_suggestion_status(store[i].id, target)
    /\ api'.code = 200
    /\ store'[i].status = target
AnyTransitionPossible ==
    Quiet /\ api = NoUpdate /\ listing = NoListing =>
        \A i \in 1..Len(store) : \A target \in valid_statuses :
            ENABLED Transition(i, target)
C13_TransitionsUnconstrained ==
    /\ [](StatusesValid /\ AnyTransitionPossible)
    /\ [][UpdateStep /\ api'.status \in valid_statuses
                     /\ Matches(api'.suggestion_id) # {}
                     /\ ~StoreRaised =>
             /\ api'.code = 200
             /\ Matched(store', api'.suggestion_id).status = api'.status]_vars
W13_ImplementedBackToPending ==
    /\ api.code = 200
    /\ api.status = "pending_review"
    /\ before = [status |-> "implemented", updated |-> TRUE]
    /\ Matched(store, api.suggestion_id).status = "pending_review"


\* C14: a listing that succeeds returns elements skip .. skip+limit-1 of
\* the records sorted by creation timestamp, newest first: the k-th record
\* returned is a stored record of rank skip+k in that order, no record is
\* returned twice, as many are returned as the store holds from skip on up to
\* limit, and total is the number of all stored records.
Min(a, b) == IF a < b THEN a ELSE b
Stored(rec) ==
    CHOOSE i \in 1..Len(store) : store[i].id = rec.id
Newer(t) == Cardinality({i \in 1..Len(store) : store[i].timestamp > t})
NotOlder(t) == Cardinality({i \in 1..Len(store) : store[i].timestamp >= t})
C14_SortedThenPaged ==
    listing.code = 200 =>
        LET got == listing.suggestions IN
        /\ listing.total = Len(store)
        /\ Len(got) =
              IF listing.skip >= Len(store) THEN 0
              ELSE Min(listing.limit, Len(store) - listing.skip)
        /\ \A k \in 1..Len(got) :
              /\ \E i \in 1..Len(store) : store[i].id = got[k].id
              /\ got[k] = [store[Stored(got[k])] EXCEPT
                              !._id = Str(@), !.timestamp = IsoFormat(@)]
              /\ Newer(store[Stored(got[k])].timestamp) <= listing.skip + k - 1
              /\ NotOlder(store[Stored(got[k])].timestamp) >= listing.skip + k
        /\ \A k, l \in 1..Len(got) : k # l => got[k].id # got[l].id
W14_SecondPageHoldsTheOlder ==
    /\ listing.code = 200
    /\ listing.skip = 1
    /\ listing.limit = 1
    /\ Len(store) = 2
    /\ store[1].timestamp < store[2].timestamp
    /\ Len(listing.suggestions) = 1
    /\ listing.suggestions[1].id = store[1].id
    /\ listing.total = 2


\* C15: a listing from the start with limit >= 1, made once a save has
\* completed, includes the record saved last; its total is the number of
\* records ever saved; and the number of stored records never decreases.
EverSaved ==
    Cardinality(UNION {{<<r, k>> : k \in 1..Len(inserted[r])} : r \in Runs})
C15_LastSavedIsListed ==
    /\ [](listing.code = 200 /\ listing.skip = 0 /\ listing.limit >= 1
              /\ store # <<>> =>
             /\ \E k \in 1..Len(listing.suggestions) :
                   listing.suggestions[k].id = Last(store).id
             /\ listing.total = EverSaved)
    /\ [][Len(store') >= Len(store)]_vars


\* C16: of two runs in flight together with distinct job identities, each
\* addresses only its own job and its own keys, and what it ends with is
\* what its own job gave: the transcript it returns is the one written for
\* its job, a job failure it reports is its job's, and a timeout means that
\* its own polls never saw its job terminal.
Underway(r) == InFlight(r) /\ job_id[r] # 0
Apart(r, q) == r # q /\ Underway(r) /\ Underway(q) /\ job_id[r] # job_id[q]
OwnJob(r) == jobs[job_id[r]]
C16_RunsDoNotInterfere ==
    \A r, q \in Runs :
        Apart(r, q) =>
            /\ \A a \in addressed[r] : a[2] = job_id[r]
            /\ addressed[r] \cap addressed[q] = {}
            /\ "transcribe" \in succeeded[r] =>
                  /\ OwnJob(r).status = "COMPLETED"
                  /\ transcript[r] = blobs[job_id[r]].text
            /\ \A i \in 1..Len(seen[r]) :
                  seen[r][i] \in Terminal => OwnJob(r).status = seen[r][i]
            /\ JobFailedSeen(r) => OwnJob(r).status = "FAILED"
            /\ TimedOut(r) /\ seen[r] # <<>> =>
                  \A i \in 1..Len(seen[r]) : seen[r][i] \notin Terminal
W16_EachItsOwnTranscript ==
    \E r, q \in Runs :
        /\ Apart(r, q)
        /\ pc[r] = "analyze" /\ pc[q] = "analyze"
        /\ transcript[r] = EmptyText
        /\ transcript[q] = ShortText
        /\ blobs[job_id[r]].text = EmptyText
        /\ blobs[job_id[q]].text = ShortText


\* C17: distinct runs have distinct job identities, and within a run one
\* identity is used for the upload key, the media and the name of the
\* transcription job, its output key, the key read back and the job_id
\* field of the persisted record.
C17_JobIdentityUniqueAndThreaded ==
    /\ \A r, q \in Runs :
          r # q /\ Underway(r) /\ Underway(q) => job_id[r] # job_id[q]
    /\ \A r \in Runs : \A a \in addressed[r] : a[2] = job_id[r]
    /\ \A r \in Runs : pc[r] = "done" => RecordOf(r).job_id = job_id[r]


\* C18: the error of every run that failed after it invoked a stage names
\* the stage that failed, upload, transcription or persistence, and then a
\* cause.
StageError(stage) ==
    CASE stage = "upload" -> "S3 upload failed"
      [] stage = "transcribe" -> "Transcription failed"
      [] stage = "save" -> "Database storage failed"
      [] OTHER -> "no stage"
C18_FailureNamesStage ==
    \A r \in Runs :
        pc[r] = "failed" /\ calls[r] # <<>> =>
            /\ resp[r].code = 500
            /\ Len(Cause(r)) >= 3
            /\ Cause(r)[1] = "Processing failed"
            /\ Cause(r)[2] = StageError(Last(calls[r]))
            /\ Last(calls[r]) \in {"upload", "transcribe", "save"}


\* C19: in every step the records already stored stay, in their places;
\* a record changes only in a status update that succeeds and names it, and
\* then only in its status and last_updated; saves, listings and status
\* updates that fail leave every stored record as it was.
SameButStatus(d, e) ==
    [d EXCEPT !.status = e.status, !.last_updated = e.last_updated] = e
C19_OnlyStatusUpdatesMutate ==
    [][/\ Len(store') >= Len(store)
       /\ \A i \in 1..Len(store) :
             /\ SameButStatus(store[i], store'[i])
             /\ store'[i] # store[i] =>
                   /\ UpdateStep
                   /\ api'.code = 200
                   /\ api'.suggestion_id = store[i].id
                   /\ store'[i].status = api'.status
       /\ UpdateStep /\ api'.code # 200 => store' = store
       /\ listing' # listing => store' = store
       /\ Len(store') > Len(store) => Len(store') = Len(store) + 1]_vars
W19_OneUpdatedOneUntouched ==
    /\ api.code = 200
    /\ api.status = "implemented"
    /\ Len(store) = 2
    /\ api.suggestion_id = store[2].id
    /\ store[2].status = "implemented"
    /\ store[2].last_updated > 0
    /\ store[1].status = "pending_review"
    /\ store[1].last_updated = 0


\* C20: transcribe issues at most max_wait_time / poll_interval status
\* polls (rounded up when the division is not exact), a poll that returned
\* a terminal status is the last, transcribe ends in exactly one of
\* transcript returned, failed and timed out, and, every remote call
\* returning, it ends.
MaxPolls == (max_wait_time + poll_interval - 1) \div poll_interval
InTranscribe(r) == pc[r] \in {"poll", "sleep", "fetch"}
LeftTranscribe(r) ==
    /\ \E i \in 1..Len(calls[r]) : calls[r][i] = "transcribe"
    /\ ~InTranscribe(r)
Outcomes(r) ==
    {o \in {"returned", "failed", "timed out"} :
        CASE o = "returned" -> "transcribe" \in succeeded[r]
          [] o = "timed out" -> TimedOut(r)
          [] OTHER -> /\ pc[r] = "failed"
                      /\ Len(Cause(r)) >= 2
                      /\ Cause(r)[2] = "Transcription failed"
                      /\ ~TimedOut(r)}
C20_TranscribeTerminates ==
    /\ [](\A r \in Runs :
             /\ Len(seen[r]) <= MaxPolls
             /\ sleeps[r] <= MaxPolls
             /\ \A i \in 1..(Len(seen[r]) - 1) : seen[r][i] \notin Terminal
             /\ InTranscribe(r) => Outcomes(r) = {}
             /\ LeftTranscribe(r) => Cardinality(Outcomes(r)) = 1)
    /\ \A r \in Runs : InTranscribe(r) ~> ~InTranscribe(r)
W20_TimedOutAfterEveryPoll ==
    \E r \in Runs :
        /\ TimedOut(r)
        /\ Len(seen[r]) = MaxPolls
        /\ sleeps[r] = MaxPolls
        /\ seen[r][1] = "QUEUED"
        /\ Outcomes(r) = {"timed out"}


\* C21: a status update to approved addressed with the document_id a
\* successful run returned for a record succeeds (when the store answers)
\* and leaves that record approved, and a listing reports every record with
\* the status it has in the store.
Returned(document_id) ==
    {i \in 1..Len(store) : Str(store[i]._id) = document_id}
C21_ReturnedIdIdentifiesRecord ==
    /\ [][UpdateStep /\ api'.status = "approved"
                     /\ Returned(api'.suggestion_id) # {}
                     /\ ~StoreRaised =>
             /\ api'.code = 200
             /\ \A i \in Returned(api'.suggestion_id) :
                    store'[i].status = "approved"]_vars
    /\ [](listing.code = 200 =>
             \A k \in 1..Len(listing.suggestions) :
                 \E i \in 1..Len(store) :
                     /\ Str(store[i]._id) = listing.suggestions[k]._id
                     /\ store[i].status = listing.suggestions[k].status)

====
